---- MODULE Spec2Model ----
(***************************************************************************)
(* PromptDj (src/index.tsx): the prompt store, the throttled push of the   *)
(* weighted prompts to the live music session, the session callbacks and   *)
(* the four-state playback machine with its audio scheduling cursor.       *)
(*                                                                         *)
(* Times are in milliseconds.  `now` is Date.now(); the audio clock        *)
(* audioContext.currentTime is `now - StartNow` (the context is created    *)
(* with the component).                                                    *)
(***************************************************************************)
EXTENDS Integers, Sequences, FiniteSets, TLC

VARIABLES
  hasUpdated,       \* LitElement: firstUpdated() has run
  prompts,          \* PromptDj.prompts: Map in insertion order, a sequence of records
  nextPromptId,     \* PromptDj.nextPromptId
  filteredPrompts,  \* PromptDj.filteredPrompts: set of texts
  sequencerGrid,    \* PromptDj.sequencerGrid: numTracks x numSteps cells
  sequencerWeight,  \* PromptDj.sequencerWeight
  now,              \* Date.now()
  lastCall,         \* throttle's closure variable
  session,          \* PromptDj.session: 0 is undefined, n > 0 the n-th handle
  connecting,       \* pending `await this.connectToSession()`: origin -> how many
  connectionError,  \* PromptDj.connectionError
  playbackState,    \* PromptDj.playbackState
  nextStartTime,    \* PromptDj.nextStartTime (audio clock, ms)
  outputNode,       \* PromptDj.outputNode: identity of the current GainNode
  gainRamp,         \* last setValueAtTime/linearRampToValueAtTime: <<node, from, to>>
  timers,           \* pending setTimeout callbacks: deadlines in arming order
  decoding,         \* onmessage handlers suspended at `await decodeAudioData`
  chunks,           \* audio chunk messages delivered so far
  scheduled,        \* source.start calls so far: [start, duration, node]
  pendingFail,      \* setWeightedPrompts promises that are going to reject
  toast,            \* ToastMessage.message: last message shown ("" when none yet)
  sent,             \* the session.setWeightedPrompts calls made so far
  command,          \* last control call: <<"play" | "pause" | "stop", handle>>, handle 0 when the call threw
  edits,            \* user edits of the store so far
  anchoredIn,       \* history: the playbackState in which a chunk anchored the cursor,
                    \* "" once a pause, a stop, an underrun or a play request followed
  textInput,        \* the #text field being edited: [promptId, textContent], the
                    \* content as a sequence of words and white-space characters
  activeTab,        \* PromptDj.activeTab
  currentBpm,       \* PromptDj.currentBpm
  sequencer,        \* the BeatSequencer element last rendered: [connected,
                    \* playbackState, bpm, stepInterval (0 is undefined), currentStep]
  stepIntervals,    \* handles of the setInterval timers that are active
  dispatched        \* the kinds of events PromptDj has dispatched so far

vars == <<hasUpdated, prompts, nextPromptId, filteredPrompts, sequencerGrid,
          sequencerWeight, now, lastCall, session, connecting, connectionError,
          playbackState, nextStartTime, outputNode, gainRamp, timers, decoding,
          chunks, scheduled, pendingFail, toast, sent, command, edits, anchoredIn,
          textInput, activeTab, currentBpm, sequencer, stepIntervals, dispatched>>

storeVars == <<prompts, nextPromptId, filteredPrompts, sequencerGrid, sequencerWeight>>
audioVars == <<playbackState, nextStartTime, outputNode, gainRamp, command, anchoredIn>>
chunkVars == <<timers, decoding, chunks, scheduled>>
pushVars == <<lastCall, pendingFail, sent>>
connVars == <<session, connecting, connectionError>>
beatVars == <<activeTab, currentBpm, sequencer, stepIntervals>>

----------------------------------------------------------------------------
(* Program constants *)

delay == 200           \* throttle(..., 200)
bufferTime == 2        \* seconds
numTracks == 6
numSteps == 16
MaxWeight == 2         \* sliders clamp weights to [0, 2]
SecondMs == 1000       \* setTimeout(..., this.bufferTime * 1000)

(* Bounds of the model *)

MaxTicks == 3          \* clock steps of half a throttle interval explored
MaxIntervals == 2      \* clock steps of one throttle interval explored
MaxLatencies == 2      \* clock steps of one buffer latency explored
MaxEdits == 2          \* user edits of the store explored
MaxFlags == 1          \* texts the session flags
MaxPrompts == 5        \* prompts ever created
MaxChunks == 2         \* audio chunk messages explored
MaxSessions == 2       \* session handles opened
MaxSeconds == 4        \* clock steps of one second explored
BeatChunks == 1        \* audio chunk messages explored under the beats tab

StartNow == 5 * delay  \* Date.now() at construction: far past the epoch
TickMs == delay \div 2
currentTime == now - StartNow   \* audioContext.currentTime, in ms

----------------------------------------------------------------------------
(* Texts *)

initialPrompts == <<"Lush Strings", "Sparkling Arpeggios", "Staccato Rhythms", "Punchy Kick">>
UserTexts == {"Lush Strings", "Punchy Kick"}
NewPromptText == "New Prompt"

instruments == <<"kick drum", "snare drum", "clap", "closed hi-hat", "open hi-hat", "toms">>
Preamble == "A brutal heavy bass and percussion track. "
Clause(i) == "It features a prominent " \o instruments[i] \o ". "

Tracks == 1..numTracks
Steps == 1..numSteps

(* A grid in which exactly the cells `on` (pairs <<track, step>>) are 1. *)
GridOf(on) == [t \in Tracks |-> [s \in Steps |-> IF <<t, s>> \in on THEN 1 ELSE 0]]

EmptyGrid == GridOf({})
KickGrid == GridOf({<<1, 1>>, <<1, 5>>, <<1, 9>>, <<1, 13>>})
HatTomGrid == GridOf({<<4, 3>>, <<6, 16>>})
Grids == {EmptyGrid, KickGrid, HatTomGrid}

Weights == {0, MaxWeight}

----------------------------------------------------------------------------
(* generateSequencerPrompt *)

(* track.some((step) => step === 1) *)
hasNotes(track) == \E s \in Steps : track[s] = 1

RECURSIVE forEachTrack(_, _, _)
forEachTrack(grid, i, description) ==
  IF i > numTracks THEN description
  ELSE forEachTrack(grid, i + 1,
         IF hasNotes(grid[i]) THEN description \o Clause(i) ELSE description)

activeInstruments(grid) == Cardinality({i \in Tracks : hasNotes(grid[i])})

(* Variant: the check for an empty grid is left out. *)
generateSequencerPromptAnyGrid(grid, weight) ==
  IF weight = 0 THEN ""
  ELSE forEachTrack(grid, 1, Preamble)

generateSequencerPrompt(grid, weight) ==
  IF weight = 0 THEN ""
  ELSE IF activeInstruments(grid) = 0 THEN ""
  ELSE forEachTrack(grid, 1, Preamble)

----------------------------------------------------------------------------
(* setSessionPrompts: the payload *)

(* Variant: prompts of weight 0 are kept. *)
promptsFilterAnyWeight(P, F) ==
  LET keep(p) == ~(p.text \in F)
  IN  SelectSeq(P, keep)

promptsFilter(P, F) ==
  LET keep(p) == ~(p.text \in F) /\ p.weight # 0
  IN  SelectSeq(P, keep)

sequencerPush(text, weight) ==
  IF text # "" /\ weight > 0
  THEN << [promptId |-> "prompt-sequencer", text |-> text, weight |-> weight,
            color |-> "#ff0044"] >>
  ELSE << >>

(* Variant: the synthetic prompt is put first (unshift for push). *)
promptsToSendUnshift(P, F, grid, weight) ==
  sequencerPush(generateSequencerPrompt(grid, weight), weight) \o promptsFilter(P, F)

promptsToSend(P, F, grid, weight) ==
  promptsFilter(P, F) \o sequencerPush(generateSequencerPrompt(grid, weight), weight)

(* The async function wrapped by throttle, run up to its first await.  With   *)
(* this.session undefined the member access throws inside the try block: the  *)
(* catch shows the TypeError and pauseAudio() throws again at session.pause(). *)
push(sess, P, F, grid, weight) ==
  IF sess = 0
  THEN /\ toast' = "TypeError"
       /\ UNCHANGED <<sent, pendingFail>>
  ELSE /\ sent' = [payload |-> promptsToSend(P, F, grid, weight),
                   to      |-> sess,
                   time    |-> now,
                   count   |-> sent.count + 1]
       /\ \E rejects \in BOOLEAN :
            pendingFail' = IF rejects THEN pendingFail + 1 ELSE pendingFail
       /\ UNCHANGED toast

(* Variant: the closure never records the time of the call. *)
throttleUnstamped(sess, P, F, grid, weight) ==
  IF now - lastCall >= delay
  THEN /\ push(sess, P, F, grid, weight)
       /\ UNCHANGED lastCall
  ELSE UNCHANGED <<lastCall, sent, pendingFail, toast>>

(* throttle(func, delay): the returned closure *)
throttle(sess, P, F, grid, weight) ==
  IF now - lastCall >= delay
  THEN /\ push(sess, P, F, grid, weight)
       /\ lastCall' = now
  ELSE UNCHANGED <<lastCall, sent, pendingFail, toast>>

(* this.setSessionPrompts() as called by a handler that leaves the store as    *)
(* given by the primed store variables                                         *)
setSessionPrompts(sess) ==
  throttle(sess, prompts', filteredPrompts', sequencerGrid', sequencerWeight')

----------------------------------------------------------------------------
(* pauseAudio, loadAudio, stopAudio *)

(* Variant: the pause keeps the output node. *)
pauseAudioNodeKept(sess) ==
  IF sess = 0
  THEN /\ command' = <<"pause", 0>>
       /\ UNCHANGED <<playbackState, nextStartTime, outputNode, gainRamp, anchoredIn>>
  ELSE /\ command' = <<"pause", sess>>
       /\ playbackState' = "paused"
       /\ gainRamp' = <<outputNode, 1, 0>>
       /\ nextStartTime' = 0
       /\ anchoredIn' = ""
       /\ UNCHANGED outputNode

(* Variant: the pause leaves the cursor where it was. *)
pauseAudioCursorKept(sess) ==
  IF sess = 0
  THEN /\ command' = <<"pause", 0>>
       /\ UNCHANGED <<playbackState, nextStartTime, outputNode, gainRamp, anchoredIn>>
  ELSE /\ command' = <<"pause", sess>>
       /\ playbackState' = "paused"
       /\ gainRamp' = <<outputNode, 1, 0>>
       /\ outputNode' = outputNode + 1
       /\ anchoredIn' = ""
       /\ UNCHANGED nextStartTime

pauseAudio(sess) ==
  IF sess = 0
  THEN /\ command' = <<"pause", 0>>   \* this.session.pause() throws: session is undefined
       /\ UNCHANGED <<playbackState, nextStartTime, outputNode, gainRamp, anchoredIn>>
  ELSE /\ command' = <<"pause", sess>>
       /\ playbackState' = "paused"
       /\ gainRamp' = <<outputNode, 1, 0>>
       /\ nextStartTime' = 0
       /\ outputNode' = outputNode + 1
       /\ anchoredIn' = ""

loadAudio(sess) ==
  IF sess = 0
  THEN /\ command' = <<"play", 0>>   \* this.session.play() throws: session is undefined
       /\ UNCHANGED <<playbackState, nextStartTime, outputNode, gainRamp, anchoredIn>>
  ELSE /\ command' = <<"play", sess>>
       /\ playbackState' = "loading"
       /\ gainRamp' = <<outputNode, 0, 1>>
       /\ UNCHANGED <<nextStartTime, outputNode>>
       /\ anchoredIn' = ""

stopAudio(sess) ==
  IF sess = 0
  THEN /\ command' = <<"stop", 0>>   \* this.session.stop() throws: session is undefined
       /\ UNCHANGED <<playbackState, nextStartTime, outputNode, gainRamp, anchoredIn>>
  ELSE /\ command' = <<"stop", sess>>
       /\ playbackState' = "stopped"
       /\ gainRamp' = <<outputNode, 0, 1>>
       /\ nextStartTime' = 0
       /\ UNCHANGED outputNode
       /\ anchoredIn' = ""

----------------------------------------------------------------------------
(* The prompt map *)

PromptIdOf(n) == "prompt-" \o ToString(n)

(* The prompts the user edits: the first and the last of the initial ones   *)
(* and the added ones                                                       *)
PromptIds ==
  {PromptIdOf(n) : n \in {0} \cup ((Len(initialPrompts) - 1)..(MaxPrompts - 1))}

has(P, id) == \E k \in DOMAIN P : P[k].promptId = id
mapGet(P, id) == P[CHOOSE k \in DOMAIN P : P[k].promptId = id]
mapSet(P, id, prompt) ==
  IF has(P, id)
  THEN [k \in DOMAIN P |-> IF P[k].promptId = id THEN prompt ELSE P[k]]
  ELSE Append(P, prompt)
mapDelete(P, id) ==
  LET other(p) == p.promptId # id IN SelectSeq(P, other)

(* The colours prompts are drawn from *)
COLORS == <<"#9900ff", "#5200ff", "#ff25f6", "#2af6de", "#ffdd28", "#3dffab",
            "#d8ff3e", "#d9b2ff">>

(* getUnusedRandomColor at the creation of prompt n: a colour no prompt has. *)
(* No handler reads a colour but to keep them apart, so the draw is taken as *)
(* the next colour of the list.                                              *)
getUnusedRandomColor(n) == COLORS[(n % Len(COLORS)) + 1]

InitialPrompts ==
  [i \in DOMAIN initialPrompts |->
     [promptId |-> PromptIdOf(i - 1), text |-> initialPrompts[i], weight |-> 0,
      color |-> getUnusedRandomColor(i - 1)]]

----------------------------------------------------------------------------
Init ==
  /\ hasUpdated = FALSE
  /\ prompts = InitialPrompts
  /\ nextPromptId = 0
  /\ filteredPrompts = {}
  /\ sequencerGrid = EmptyGrid
  /\ sequencerWeight = 0
  /\ now = StartNow
  /\ lastCall = 0
  /\ session = 0
  /\ connecting = [startup |-> 0, play |-> 0]
  /\ connectionError = TRUE
  /\ playbackState = "stopped"
  /\ nextStartTime = 0
  /\ outputNode = 1
  /\ gainRamp = <<0, 0, 0>>
  /\ timers = << >>
  /\ decoding = << >>
  /\ chunks = 0
  /\ scheduled = << >>
  /\ pendingFail = 0
  /\ toast = ""
  /\ sent = [payload |-> << >>, to |-> 0, time |-> 0, count |-> 0]
  /\ command = <<"none", 0>>
  /\ edits = 0
  /\ anchoredIn = ""
  /\ textInput = [promptId |-> "", textContent |-> << >>]
  /\ activeTab = "prompts"
  /\ currentBpm = 120
  /\ sequencer = [connected |-> FALSE, playbackState |-> "stopped", bpm |-> 120,
                  stepInterval |-> 0, currentStep |-> -1]
  /\ stepIntervals = {}
  /\ dispatched = {}

(* firstUpdated, up to `await this.connectToSession()` *)
FirstUpdated ==
  /\ ~hasUpdated
  /\ hasUpdated' = TRUE
  /\ nextPromptId' = Len(prompts)
  /\ connecting' = [connecting EXCEPT !.startup = 1]
  /\ UNCHANGED <<prompts, filteredPrompts, sequencerGrid, sequencerWeight, now,
                 session, connectionError, audioVars, chunkVars, pushVars, toast,
                 textInput, beatVars, dispatched>>

(* Variant: the play request goes to the handle held before the reconnect. *)
ConnectResolvedOldHandle(origin) ==
  /\ hasUpdated
  /\ connecting[origin] > 0
  /\ connecting' = [connecting EXCEPT ![origin] = @ - 1]
  /\ session' = session + 1
  /\ UNCHANGED <<hasUpdated, dispatched, textInput, beatVars, storeVars, now, connectionError, chunkVars>>
  /\ setSessionPrompts(session')
  /\ IF origin = "play" THEN loadAudio(session) ELSE UNCHANGED audioVars

(* Variant: the prompt of the event is stored whether or not its id is      *)
(* present.                                                                 *)
handlePromptChangedUpsert(promptId, text, weight) ==
  /\ hasUpdated
  /\ prompts' = mapSet(prompts, promptId,
                       [promptId |-> promptId, text |-> text, weight |-> weight,
                        color |-> getUnusedRandomColor(0)])
  /\ UNCHANGED <<filteredPrompts, sequencerGrid, sequencerWeight>>
  /\ setSessionPrompts(session)
  /\ dispatched' = dispatched \cup {"prompts-changed"}
  /\ UNCHANGED <<hasUpdated, textInput, beatVars, nextPromptId, filteredPrompts, sequencerGrid,
                 sequencerWeight, now, connVars, audioVars, chunkVars>>

(* ai.live.music.connect resolves: this.session is assigned and the awaiting   *)
(* caller continues: firstUpdated pushes, handlePlayPause pushes and loads.    *)
ConnectResolved(origin) ==
  /\ hasUpdated
  /\ connecting[origin] > 0
  /\ connecting' = [connecting EXCEPT ![origin] = @ - 1]
  /\ session' = session + 1
  /\ UNCHANGED <<hasUpdated, dispatched, textInput, beatVars, storeVars, now, connectionError, chunkVars>>
  /\ setSessionPrompts(session')
  /\ IF origin = "play" THEN loadAudio(session') ELSE UNCHANGED audioVars

handlePromptChanged(promptId, text, weight) ==
  /\ hasUpdated
  /\ IF ~has(prompts, promptId)
     THEN /\ UNCHANGED dispatched
          /\ UNCHANGED <<prompts, pushVars, toast>>
     ELSE /\ prompts' = mapSet(prompts, promptId,
                               [mapGet(prompts, promptId) EXCEPT !.text = text,
                                                                 !.weight = weight])
          /\ UNCHANGED <<filteredPrompts, sequencerGrid, sequencerWeight>>
          /\ setSessionPrompts(session)
          /\ dispatched' = dispatched \cup {"prompts-changed"}
  /\ UNCHANGED <<hasUpdated, textInput, beatVars, nextPromptId, filteredPrompts, sequencerGrid,
                 sequencerWeight, now, connVars, audioVars, chunkVars>>

----------------------------------------------------------------------------
(* PromptController: the #text field and the weight slider of one prompt *)

WhiteSpace == {" ", "\n"}

(* What the user leaves in the field: nothing, white space only, a text, a  *)
(* text with white space around it                                          *)
TextContents ==
  {<< >>, <<" ">>, <<"\n", " ">>, <<"Punchy Kick">>, <<" ", "Lush Strings", "\n">>}

(* String.prototype.trim *)
RECURSIVE trimStart(_)
trimStart(q) ==
  IF q # << >> /\ Head(q) \in WhiteSpace THEN trimStart(Tail(q)) ELSE q
RECURSIVE trimEnd(_)
trimEnd(q) ==
  IF q # << >> /\ q[Len(q)] \in WhiteSpace THEN trimEnd(SubSeq(q, 1, Len(q) - 1)) ELSE q
trim(q) == trimEnd(trimStart(q))

(* The string a content stands for *)
RECURSIVE stringOf(_)
stringOf(q) == IF q = << >> THEN "" ELSE Head(q) \o stringOf(Tail(q))

(* The user edits the contenteditable field of a prompt. *)
input(promptId, content) ==
  /\ hasUpdated
  /\ has(prompts, promptId)
  /\ textInput' = [promptId |-> promptId, textContent |-> content]
  /\ UNCHANGED <<hasUpdated, storeVars, now, connVars, audioVars, chunkVars,
                 pushVars, toast, beatVars, dispatched>>

(* Variant: an empty text is committed like any other. *)
updateTextUnchecked ==
  /\ hasUpdated
  /\ has(prompts, textInput.promptId)
  /\ handlePromptChanged(textInput.promptId,
                         stringOf(trim(textInput.textContent)),
                         mapGet(prompts, textInput.promptId).weight)

(* updateText, on blur or Enter, and the prompt-changed event it dispatches *)
updateText ==
  /\ hasUpdated
  /\ has(prompts, textInput.promptId)
  /\ LET this    == mapGet(prompts, textInput.promptId)
         newText == stringOf(trim(textInput.textContent))
     IN  IF newText = ""
         THEN /\ textInput' = [textInput EXCEPT !.textContent = <<this.text>>]
              /\ UNCHANGED <<hasUpdated, storeVars, now, connVars, audioVars,
                             chunkVars, pushVars, toast, beatVars, dispatched>>
         ELSE handlePromptChanged(textInput.promptId, newText, this.weight)

(* updateWeight, on the slider's input event *)
updateWeight(promptId, value) ==
  /\ hasUpdated
  /\ has(prompts, promptId)
  /\ handlePromptChanged(promptId, mapGet(prompts, promptId).text, value)

(* Variant: the new id is numbered by the size of the map. *)
handleAddPromptBySize ==
  /\ hasUpdated
  /\ nextPromptId < MaxPrompts
  /\ nextPromptId' = nextPromptId + 1
  /\ prompts' = mapSet(prompts, PromptIdOf(Len(prompts)),
                        [promptId |-> PromptIdOf(Len(prompts)), text |-> NewPromptText,
                         weight |-> 0, color |-> getUnusedRandomColor(nextPromptId)])
  /\ UNCHANGED <<filteredPrompts, sequencerGrid, sequencerWeight>>
  /\ setSessionPrompts(session)
  /\ UNCHANGED dispatched
  /\ UNCHANGED <<hasUpdated, textInput, beatVars, now, connVars, audioVars, chunkVars>>

handleAddPrompt ==
  /\ hasUpdated
  /\ nextPromptId < MaxPrompts
  /\ nextPromptId' = nextPromptId + 1
  /\ prompts' = mapSet(prompts, PromptIdOf(nextPromptId),
                        [promptId |-> PromptIdOf(nextPromptId), text |-> NewPromptText,
                         weight |-> 0, color |-> getUnusedRandomColor(nextPromptId)])
  /\ UNCHANGED <<filteredPrompts, sequencerGrid, sequencerWeight>>
  /\ setSessionPrompts(session)
  /\ UNCHANGED dispatched
  /\ UNCHANGED <<hasUpdated, textInput, beatVars, now, connVars, audioVars, chunkVars>>

handlePromptRemoved(promptId) ==
  /\ hasUpdated
  /\ IF has(prompts, promptId)
     THEN /\ prompts' = mapDelete(prompts, promptId)
          /\ UNCHANGED <<filteredPrompts, sequencerGrid, sequencerWeight>>
          /\ setSessionPrompts(session)
          /\ dispatched' = dispatched \cup {"prompts-changed"}
     ELSE /\ UNCHANGED dispatched
          /\ UNCHANGED <<prompts, pushVars, toast>>
  /\ UNCHANGED <<hasUpdated, textInput, beatVars, nextPromptId, filteredPrompts, sequencerGrid,
                 sequencerWeight, now, connVars, audioVars, chunkVars>>

handleSequencerChange(grid, weight) ==
  /\ hasUpdated
  /\ sequencerGrid' = grid
  /\ sequencerWeight' = weight
  /\ UNCHANGED <<prompts, filteredPrompts>>
  /\ setSessionPrompts(session)
  /\ UNCHANGED dispatched
  /\ UNCHANGED <<hasUpdated, textInput, beatVars, nextPromptId, now, connVars, audioVars, chunkVars>>

(* Variant: the failure path sends the payload again. *)
PushRejectedRetries ==
  /\ pendingFail > 0
  /\ toast' = "send failed"
  /\ pauseAudio(session)
  /\ sent' = [sent EXCEPT !.time = now, !.count = @ + 1]
  /\ pendingFail' \in {pendingFail - 1, pendingFail}
  /\ lastCall' = now
  /\ UNCHANGED <<hasUpdated, dispatched, textInput, beatVars, storeVars, now, connVars, chunkVars>>

(* The continuation of `await this.session.setWeightedPrompts(...)` when the   *)
(* promise rejects: the catch block                                            *)
PushRejected ==
  /\ pendingFail > 0
  /\ pendingFail' = pendingFail - 1
  /\ toast' = "send failed"
  /\ pauseAudio(session)
  /\ UNCHANGED <<hasUpdated, dispatched, textInput, beatVars, storeVars, now, lastCall, sent, connVars, chunkVars>>

----------------------------------------------------------------------------
(* Server messages.  An optional field is a set with at most one element.  *)

Message(setupComplete, filteredPrompt, audioChunks) ==
  [setupComplete |-> setupComplete, filteredPrompt |-> filteredPrompt,
   audioChunks |-> audioChunks]

(* audioChunks: the durations of the buffers the chunks decode to *)
ChunkLists == {<<SecondMs>>, <<2 * SecondMs, SecondMs>>}

(* decodeAudioData(decode(data), ctx, 48000, 2), from ./utils: the duration   *)
(* of the buffer it resolves to.  The await is a hand-off to the event loop.  *)
decodeAudioData(chunk) == chunk

(* Variant: setupComplete starts the filtered set afresh. *)
onmessageSetupClears(e) ==
  /\ hasUpdated
  /\ session # 0
  /\ e.audioChunks # {} => chunks < MaxChunks
  /\ connectionError' = IF e.setupComplete THEN FALSE ELSE connectionError
  /\ filteredPrompts' = IF e.setupComplete THEN e.filteredPrompt
                      ELSE filteredPrompts \cup e.filteredPrompt
  /\ toast' = IF e.filteredPrompt # {} THEN "filteredReason" ELSE toast
  /\ chunks' = IF e.audioChunks # {} THEN chunks + 1 ELSE chunks
  /\ decoding' =
       IF e.audioChunks # {} /\ playbackState \notin {"paused", "stopped"}
       THEN Append(decoding, decodeAudioData((CHOOSE c \in e.audioChunks : TRUE)[1]))
       ELSE decoding
  /\ UNCHANGED <<hasUpdated, dispatched, textInput, beatVars, prompts, nextPromptId, sequencerGrid, sequencerWeight,
                 now, session, connecting, audioVars, timers, scheduled, pushVars>>

(* Variant: every chunk of the message is decoded. *)
onmessageEveryChunk(e) ==
  /\ hasUpdated
  /\ session # 0
  /\ e.audioChunks # {} => chunks < MaxChunks
  /\ connectionError' = IF e.setupComplete THEN FALSE ELSE connectionError
  /\ filteredPrompts' = filteredPrompts \cup e.filteredPrompt
  /\ toast' = IF e.filteredPrompt # {} THEN "filteredReason" ELSE toast
  /\ chunks' = IF e.audioChunks # {} THEN chunks + 1 ELSE chunks
  /\ decoding' =
       IF e.audioChunks # {} /\ playbackState \notin {"paused", "stopped"}
       THEN decoding \o (CHOOSE c \in e.audioChunks : TRUE)
       ELSE decoding
  /\ UNCHANGED <<hasUpdated, dispatched, textInput, beatVars, prompts, nextPromptId, sequencerGrid, sequencerWeight,
                 now, session, connecting, audioVars, timers, scheduled, pushVars>>

(* onmessage, up to `await decodeAudioData(...)` *)
onmessage(e) ==
  /\ hasUpdated
  /\ session # 0
  /\ e.audioChunks # {} => chunks < MaxChunks
  /\ connectionError' = IF e.setupComplete THEN FALSE ELSE connectionError
  /\ filteredPrompts' = filteredPrompts \cup e.filteredPrompt
  /\ toast' = IF e.filteredPrompt # {} THEN "filteredReason" ELSE toast
  /\ chunks' = IF e.audioChunks # {} THEN chunks + 1 ELSE chunks
  /\ decoding' =
       IF e.audioChunks # {} /\ playbackState \notin {"paused", "stopped"}
       THEN Append(decoding, decodeAudioData((CHOOSE c \in e.audioChunks : TRUE)[1]))
       ELSE decoding
  /\ UNCHANGED <<hasUpdated, dispatched, textInput, beatVars, prompts, nextPromptId, sequencerGrid, sequencerWeight,
                 now, session, connecting, audioVars, timers, scheduled, pushVars>>

RemoveAt(q, i) == [k \in 1..(Len(q) - 1) |-> IF k < i THEN q[k] ELSE q[k + 1]]

(* Variant: the cursor is not advanced by the buffer's duration. *)
decodedCursorKept(i) ==
  /\ i \in DOMAIN decoding
  /\ decoding' = RemoveAt(decoding, i)
  /\ LET anchor == nextStartTime = 0
         start  == IF anchor THEN currentTime + bufferTime * SecondMs
                   ELSE nextStartTime
     IN  /\ timers' = IF anchor THEN Append(timers, now + bufferTime * SecondMs)
                      ELSE timers
         /\ IF start < currentTime
            THEN /\ playbackState' = "loading"
                 /\ nextStartTime' = 0
                 /\ anchoredIn' = ""
                 /\ UNCHANGED scheduled
            ELSE /\ scheduled' = Append(scheduled,
                      [start |-> start, duration |-> decoding[i], node |-> outputNode])
                 /\ nextStartTime' = start
                 /\ anchoredIn' = IF anchor THEN playbackState ELSE anchoredIn
                 /\ UNCHANGED playbackState
  /\ UNCHANGED <<hasUpdated, dispatched, textInput, beatVars, storeVars, now, connVars, outputNode, gainRamp, command,
                 chunks, pushVars, toast>>

(* Variant: a buffer that is late is started all the same. *)
decodedNoUnderrun(i) ==
  /\ i \in DOMAIN decoding
  /\ decoding' = RemoveAt(decoding, i)
  /\ LET anchor == nextStartTime = 0
         start  == IF anchor THEN currentTime + bufferTime * SecondMs
                   ELSE nextStartTime
     IN  /\ timers' = IF anchor THEN Append(timers, now + bufferTime * SecondMs)
                      ELSE timers
         /\ IF FALSE
            THEN /\ playbackState' = "loading"
                 /\ nextStartTime' = 0
                 /\ anchoredIn' = ""
                 /\ UNCHANGED scheduled
            ELSE /\ scheduled' = Append(scheduled,
                      [start |-> start, duration |-> decoding[i], node |-> outputNode])
                 /\ nextStartTime' = start + decoding[i]
                 /\ anchoredIn' = IF anchor THEN playbackState ELSE anchoredIn
                 /\ UNCHANGED playbackState
  /\ UNCHANGED <<hasUpdated, dispatched, textInput, beatVars, storeVars, now, connVars, outputNode, gainRamp, command,
                 chunks, pushVars, toast>>

(* onmessage, after the await: the decoded buffer is connected and scheduled *)
decoded(i) ==
  /\ i \in DOMAIN decoding
  /\ decoding' = RemoveAt(decoding, i)
  /\ LET anchor == nextStartTime = 0
         start  == IF anchor THEN currentTime + bufferTime * SecondMs
                   ELSE nextStartTime
     IN  /\ timers' = IF anchor THEN Append(timers, now + bufferTime * SecondMs)
                      ELSE timers
         /\ IF start < currentTime
            THEN /\ playbackState' = "loading"
                 /\ nextStartTime' = 0
                 /\ anchoredIn' = ""
                 /\ UNCHANGED scheduled
            ELSE /\ scheduled' = Append(scheduled,
                      [start |-> start, duration |-> decoding[i], node |-> outputNode])
                 /\ nextStartTime' = start + decoding[i]
                 /\ anchoredIn' = IF anchor THEN playbackState ELSE anchoredIn
                 /\ UNCHANGED playbackState
  /\ UNCHANGED <<hasUpdated, dispatched, textInput, beatVars, storeVars, now, connVars, outputNode, gainRamp, command,
                 chunks, pushVars, toast>>

(* Variant: a failed decode is handled like an underrun. *)
decodeFailedResets(i) ==
  /\ i \in DOMAIN decoding
  /\ decoding' = RemoveAt(decoding, i)
  /\ playbackState' = "loading"
  /\ nextStartTime' = 0
  /\ anchoredIn' = ""
  /\ UNCHANGED <<hasUpdated, dispatched, textInput, beatVars, storeVars, now, connVars, outputNode, gainRamp,
                 command, timers, chunks, scheduled, pushVars, toast>>

(* decodeAudioData rejects: the handler ends there *)
decodeFailed(i) ==
  /\ i \in DOMAIN decoding
  /\ decoding' = RemoveAt(decoding, i)
  /\ UNCHANGED <<hasUpdated, dispatched, textInput, beatVars, storeVars, now, connVars, audioVars, timers, chunks,
                 scheduled, pushVars, toast>>

(* the setTimeout callback armed when a chunk anchors the cursor *)
timeout ==
  /\ timers # << >>
  /\ now >= Head(timers)
  /\ timers' = Tail(timers)
  /\ playbackState' = "playing"
  /\ UNCHANGED <<hasUpdated, dispatched, textInput, beatVars, storeVars, now, connVars, nextStartTime, outputNode,
                 gainRamp, command, anchoredIn, decoding, chunks, scheduled, pushVars,
                 toast>>

(* Variant: the error handler leaves connectionError alone. *)
onerrorFlagKept ==
  /\ hasUpdated
  /\ stopAudio(session)
  /\ toast' = IF session = 0 THEN toast
            ELSE "Connection error, please restart audio."
  /\ UNCHANGED <<hasUpdated, dispatched, textInput, beatVars, storeVars, now, connVars, chunkVars, pushVars>>

(* Variant: the error handler reconnects by itself. *)
onerrorReconnects ==
  /\ hasUpdated
  /\ connectionError' = TRUE
  /\ stopAudio(session)
  /\ toast' = IF session = 0 THEN toast
            ELSE "Connection error, please restart audio."
  /\ session + connecting.startup + connecting.play < MaxSessions
  /\ connecting' = [connecting EXCEPT !.play = @ + 1]
  /\ UNCHANGED <<hasUpdated, dispatched, textInput, beatVars, storeVars, now, session, chunkVars, pushVars>>

onerror ==
  /\ hasUpdated
  /\ connectionError' = TRUE
  /\ stopAudio(session)
  /\ toast' = IF session = 0 THEN toast   \* stopAudio threw: show() is not reached
            ELSE "Connection error, please restart audio."
  /\ UNCHANGED <<hasUpdated, dispatched, textInput, beatVars, storeVars, now, session, connecting, chunkVars, pushVars>>

onclose ==
  /\ hasUpdated
  /\ connectionError' = TRUE
  /\ stopAudio(session)
  /\ toast' = IF session = 0 THEN toast   \* stopAudio threw: show() is not reached
            ELSE "Connection error, please restart audio."
  /\ UNCHANGED <<hasUpdated, dispatched, textInput, beatVars, storeVars, now, session, connecting, chunkVars, pushVars>>

(* Variant: a press while loading pauses instead of stopping. *)
handlePlayPauseLoadingPauses ==
  /\ hasUpdated
  /\ CASE playbackState = "playing" ->
            /\ pauseAudio(session)
            /\ UNCHANGED connecting
       [] playbackState \in {"paused", "stopped"} ->
            IF connectionError
            THEN /\ session + connecting.startup + connecting.play < MaxSessions
                 /\ connecting' = [connecting EXCEPT !.play = @ + 1]
                 /\ UNCHANGED audioVars
            ELSE /\ loadAudio(session)
                 /\ UNCHANGED connecting
       [] playbackState = "loading" ->
            /\ pauseAudio(session)
            /\ UNCHANGED connecting
  /\ UNCHANGED <<hasUpdated, dispatched, textInput, beatVars, storeVars, now, session, connectionError, chunkVars,
                 pushVars, toast>>

(* handlePlayPause, up to `await this.connectToSession()` when it reconnects *)
handlePlayPause ==
  /\ hasUpdated
  /\ CASE playbackState = "playing" ->
            /\ pauseAudio(session)
            /\ UNCHANGED connecting
       [] playbackState \in {"paused", "stopped"} ->
            IF connectionError
            THEN /\ session + connecting.startup + connecting.play < MaxSessions
                 /\ connecting' = [connecting EXCEPT !.play = @ + 1]
                 /\ UNCHANGED audioVars
            ELSE /\ loadAudio(session)
                 /\ UNCHANGED connecting
       [] playbackState = "loading" ->
            /\ stopAudio(session)
            /\ UNCHANGED connecting
  /\ UNCHANGED <<hasUpdated, dispatched, textInput, beatVars, storeVars, now, session, connectionError, chunkVars,
                 pushVars, toast>>

(* Time passes: half a throttle interval, or one buffer latency *)
Tick ==
  /\ now + TickMs <= StartNow + MaxTicks * TickMs
  /\ now' = now + TickMs
  /\ UNCHANGED <<hasUpdated, dispatched, textInput, beatVars, storeVars, connVars, audioVars, chunkVars, pushVars,
                 toast, lastCall>>

TickLatency ==
  /\ now + bufferTime * SecondMs <= StartNow + MaxLatencies * bufferTime * SecondMs
  /\ now' = now + bufferTime * SecondMs
  /\ UNCHANGED <<hasUpdated, dispatched, textInput, beatVars, storeVars, connVars, audioVars, chunkVars, pushVars,
                 toast, lastCall>>

----------------------------------------------------------------------------
(* The user's edits *)
Edit ==
  /\ edits < MaxEdits
  /\ edits' = edits + 1
  /\ \/ \E id \in PromptIds, text \in UserTexts, weight \in Weights :
          handlePromptChanged(id, text, weight)
     \/ handleAddPrompt
     \/ \E id \in PromptIds : handlePromptRemoved(id)
     \/ \E grid \in Grids, weight \in Weights : handleSequencerChange(grid, weight)

(* The session flags a text of the prompt set it holds. *)
FlagMessages ==
  IF Cardinality(filteredPrompts) < MaxFlags
  THEN {Message(FALSE, {sent.payload[k].text}, {}) : k \in DOMAIN sent.payload}
  ELSE {}

TickInterval ==
  /\ now + delay <= StartNow + MaxIntervals * delay
  /\ now' = now + delay
  /\ UNCHANGED <<hasUpdated, dispatched, textInput, beatVars, storeVars, connVars, audioVars, chunkVars, pushVars,
                 toast, lastCall>>

(* The prompt store and the payload pushed to the session *)
NextStore ==
  \/ FirstUpdated /\ UNCHANGED edits
  \/ ConnectResolved("startup") /\ UNCHANGED edits
  \/ Edit
  \/ (\E e \in FlagMessages \cup {Message(TRUE, {}, {})} : onmessage(e)) /\ UNCHANGED edits
  \/ PushRejected /\ UNCHANGED edits
  \/ TickInterval /\ UNCHANGED edits
SpecStore == Init /\ [][NextStore]_vars

(* The throttled push and the connection, on the fine clock: one edit of    *)
(* each kind                                                                 *)
Trigger ==
  /\ edits < MaxEdits
  /\ edits' = edits + 1
  /\ \/ \E weight \in Weights :
          handlePromptChanged(PromptIdOf(0), "Lush Strings", weight)
     \/ handleAddPrompt
     \/ handlePromptRemoved(PromptIdOf(Len(initialPrompts) - 1))
     \/ \E weight \in Weights : handleSequencerChange(KickGrid, weight)

NextSync ==
  \/ FirstUpdated /\ UNCHANGED edits
  \/ (\E origin \in {"startup", "play"} : ConnectResolved(origin)) /\ UNCHANGED edits
  \/ Trigger
  \/ onmessage(Message(TRUE, {}, {})) /\ UNCHANGED edits
  \/ onerror /\ UNCHANGED edits
  \/ onclose /\ UNCHANGED edits
  \/ handlePlayPause /\ UNCHANGED edits
  \/ PushRejected /\ UNCHANGED edits
  \/ Tick /\ UNCHANGED edits
SpecSync == Init /\ [][NextSync]_vars

(* Chunk messages *)
ChunkMessages == {Message(FALSE, {}, {c}) : c \in ChunkLists}

(* The playback machine and the audio scheduling, on the coarse clock.  The   *)
(* store reaches it only through the throttled push, here the startup push    *)
(* and the reconnect pushes.                                                  *)
Next ==
  \/ FirstUpdated /\ UNCHANGED edits
  \/ (\E origin \in {"startup", "play"} : ConnectResolved(origin)) /\ UNCHANGED edits
  \/ (\E e \in ChunkMessages \cup {Message(TRUE, {}, {})} : onmessage(e)) /\ UNCHANGED edits
  \/ (\E i \in 1..MaxChunks : decoded(i)) /\ UNCHANGED edits
  \/ (\E i \in 1..MaxChunks : decodeFailed(i)) /\ UNCHANGED edits
  \/ timeout /\ UNCHANGED edits
  \/ onerror /\ UNCHANGED edits
  \/ onclose /\ UNCHANGED edits
  \/ handlePlayPause /\ UNCHANGED edits
  \/ PushRejected /\ UNCHANGED edits
  \/ TickLatency /\ UNCHANGED edits
Spec == Init /\ [][Next]_vars

(* Time passes: one second *)
TickSecond ==
  /\ now + SecondMs <= StartNow + MaxSeconds * SecondMs
  /\ now' = now + SecondMs
  /\ UNCHANGED <<hasUpdated, dispatched, textInput, beatVars, storeVars, connVars, audioVars, chunkVars, pushVars,
                 toast, lastCall>>

(* The user presses the button once the session is set up. *)
Press == ~connectionError /\ handlePlayPause

(* The audio scheduling of one session, on the clock of seconds, with the    *)
(* startup push accepted by the session                                      *)
NextAudio ==
  \/ FirstUpdated /\ UNCHANGED edits
  \/ ConnectResolved("startup") /\ pendingFail' = pendingFail /\ UNCHANGED edits
  \/ (\E e \in ChunkMessages \cup {Message(TRUE, {}, {})} : onmessage(e)) /\ UNCHANGED edits
  \/ (\E i \in 1..MaxChunks : decoded(i)) /\ UNCHANGED edits
  \/ timeout /\ UNCHANGED edits
  \/ onerror /\ UNCHANGED edits
  \/ onclose /\ UNCHANGED edits
  \/ Press /\ UNCHANGED edits
  \/ TickSecond /\ UNCHANGED edits
SpecAudio == Init /\ [][NextAudio]_vars

(* The same with the startup push accepted or rejected, decodes that        *)
(* complete or fail, and a session that stays up                             *)
NextFailure ==
  \/ FirstUpdated /\ UNCHANGED edits
  \/ ConnectResolved("startup") /\ UNCHANGED edits
  \/ (\E e \in ChunkMessages \cup {Message(TRUE, {}, {})} : onmessage(e)) /\ UNCHANGED edits
  \/ (\E i \in 1..MaxChunks : decoded(i)) /\ UNCHANGED edits
  \/ timeout /\ UNCHANGED edits
  \/ Press /\ UNCHANGED edits
  \/ (\E i \in 1..MaxChunks : decodeFailed(i)) /\ UNCHANGED edits
  \/ PushRejected /\ UNCHANGED edits
  \/ TickSecond /\ UNCHANGED edits
SpecFailure == Init /\ [][NextFailure]_vars

(* The text fields: typing, committing, the sliders, adding and removing    *)
NextText ==
  \/ FirstUpdated /\ UNCHANGED edits
  \/ ConnectResolved("startup") /\ UNCHANGED edits
  \/ /\ edits < MaxEdits
     /\ edits' = edits + 1
     /\ \/ \E id \in PromptIds, content \in TextContents : input(id, content)
        \/ \E id \in PromptIds, value \in Weights : updateWeight(id, value)
        \/ handleAddPrompt
        \/ \E id \in PromptIds : handlePromptRemoved(id)
  \/ updateText /\ UNCHANGED edits
  \/ TickInterval /\ UNCHANGED edits
SpecText == Init /\ [][NextText]_vars

(* The session's life: SpecSync with the session flagging texts *)
NextSession ==
  \/ NextSync
  \/ (\E e \in FlagMessages : onmessage(e)) /\ UNCHANGED edits
SpecSession == Init /\ [][NextSession]_vars

(* BeatSequencer: the step timer.  A handle returned by setInterval differs  *)
(* from every active handle and from the one cleared just before.            *)
setInterval(active, cleared) ==
  CHOOSE h \in 1..(Cardinality(active) + 2) :
    /\ h \notin active \cup {cleared}
    /\ \A g \in 1..(h - 1) : g \in active \cup {cleared}

(* Variant: the timer that is running is left running. *)
updatePlaybackIndicatorNoClear(this) ==
  IF this.playbackState = "playing" /\ this.bpm > 0
  THEN LET handle == setInterval(stepIntervals, this.stepInterval)
       IN  /\ stepIntervals' = stepIntervals \cup {handle}
           /\ sequencer' = [this EXCEPT !.stepInterval = handle]
  ELSE /\ stepIntervals' = stepIntervals
       /\ sequencer' = [this EXCEPT !.stepInterval = 0, !.currentStep = -1]

(* updatePlaybackIndicator, on the element `this` *)
updatePlaybackIndicator(this) ==
  LET cleared == IF this.stepInterval # 0
                 THEN stepIntervals \ {this.stepInterval}
                 ELSE stepIntervals
  IN  IF this.playbackState = "playing" /\ this.bpm > 0
      THEN LET handle == setInterval(cleared, this.stepInterval)
           IN  /\ stepIntervals' = cleared \cup {handle}
               /\ sequencer' = [this EXCEPT !.stepInterval = handle]
      ELSE /\ stepIntervals' = cleared
           /\ sequencer' = [this EXCEPT !.stepInterval = 0, !.currentStep = -1]

(* The tab buttons *)
Tabs == {"prompts", "beats"}

selectTab(tab) ==
  /\ hasUpdated
  /\ activeTab' = tab
  /\ UNCHANGED <<hasUpdated, dispatched, textInput, storeVars, now, connVars, audioVars, chunkVars,
                 pushVars, toast, currentBpm, sequencer, stepIntervals>>

(* The values of the settings' BPM field: 0 stands for an empty field *)
BpmInputs == {0, 0 - 5, 90}

(* handleSettingsChange: setMusicGenerationConfig throws without a session *)
handleSettingsChange(bpm) ==
  /\ hasUpdated
  /\ currentBpm' = IF session # 0 /\ bpm # 0 THEN bpm ELSE currentBpm
  /\ UNCHANGED <<hasUpdated, dispatched, textInput, storeVars, now, connVars, audioVars, chunkVars,
                 pushVars, toast, activeTab, sequencer, stepIntervals>>

(* renderBeatsArea creates the element; its first update has both properties *)
(* among the changed ones                                                    *)
sequencerFirstUpdated ==
  /\ activeTab = "beats"
  /\ ~sequencer.connected
  /\ updatePlaybackIndicator([connected |-> TRUE, playbackState |-> playbackState,
                              bpm |-> currentBpm, stepInterval |-> 0,
                              currentStep |-> -1])
  /\ UNCHANGED <<hasUpdated, dispatched, textInput, storeVars, now, connVars, audioVars, chunkVars,
                 pushVars, toast, activeTab, currentBpm>>

(* updated, after renderBeatsArea has bound a changed playbackState or bpm *)
updated ==
  /\ activeTab = "beats"
  /\ sequencer.connected
  /\ sequencer.playbackState # playbackState \/ sequencer.bpm # currentBpm
  /\ updatePlaybackIndicator([sequencer EXCEPT !.playbackState = playbackState,
                                               !.bpm = currentBpm])
  /\ UNCHANGED <<hasUpdated, dispatched, textInput, storeVars, now, connVars, audioVars, chunkVars,
                 pushVars, toast, activeTab, currentBpm>>

(* disconnectedCallback, when the prompts area replaces the element *)
disconnectedCallback ==
  /\ activeTab = "prompts"
  /\ sequencer.connected
  /\ stepIntervals' = IF sequencer.stepInterval # 0
                      THEN stepIntervals \ {sequencer.stepInterval}
                      ELSE stepIntervals
  /\ sequencer' = [sequencer EXCEPT !.connected = FALSE]
  /\ UNCHANGED <<hasUpdated, dispatched, textInput, storeVars, now, connVars, audioVars, chunkVars,
                 pushVars, toast, activeTab, currentBpm>>

(* The callback of an active step timer *)
stepTick ==
  /\ stepIntervals # {}
  /\ sequencer' = [sequencer EXCEPT !.currentStep = (@ + 1) % numSteps]
  /\ UNCHANGED <<hasUpdated, dispatched, textInput, storeVars, now, connVars, audioVars, chunkVars,
                 pushVars, toast, activeTab, currentBpm, stepIntervals>>

(* PromptDj has rendered and the element has not been updated yet: the      *)
(* update runs as a microtask, before any other event or timer.             *)
RenderPending ==
  \/ (activeTab = "beats") # sequencer.connected
  \/ /\ sequencer.connected
     /\ sequencer.playbackState # playbackState \/ sequencer.bpm # currentBpm

(* The beats tab over the audio scheduling of one session and the first     *)
(* chunks of one second it sends                                            *)
NextBeat ==
  \/ ~RenderPending /\ FirstUpdated /\ UNCHANGED edits
  \/ ~RenderPending /\ ConnectResolved("startup") /\ pendingFail' = pendingFail
       /\ UNCHANGED edits
  \/ ~RenderPending /\ onmessage(Message(TRUE, {}, {})) /\ UNCHANGED edits
  \/ ~RenderPending /\ chunks < BeatChunks /\ onmessage(Message(FALSE, {}, {<<SecondMs>>}))
       /\ UNCHANGED edits
  \/ ~RenderPending /\ (\E i \in 1..MaxChunks : decoded(i)) /\ UNCHANGED edits
  \/ ~RenderPending /\ timeout /\ UNCHANGED edits
  \/ ~RenderPending /\ Press /\ UNCHANGED edits
  \/ ~RenderPending /\ TickSecond /\ UNCHANGED edits
  \/ ~RenderPending /\ (\E tab \in Tabs : selectTab(tab)) /\ UNCHANGED edits
  \/ ~RenderPending /\ (\E bpm \in BpmInputs : handleSettingsChange(bpm))
       /\ UNCHANGED edits
  \/ ~RenderPending /\ stepTick /\ UNCHANGED edits
  \/ sequencerFirstUpdated /\ UNCHANGED edits
  \/ updated /\ UNCHANGED edits
  \/ disconnectedCallback /\ UNCHANGED edits
SpecBeat == Init /\ [][NextBeat]_vars

----------------------------------------------------------------------------
(* Properties of the payload, under SpecStore *)

(* The step calls session.setWeightedPrompts. *)
Pushes == sent'.count # sent.count

(* The positions of the synthetic sequencer prompt in a payload *)
Synthetic(payload) == {k \in DOMAIN payload : payload[k].promptId = "prompt-sequencer"}

(* The tracks of a grid with at least one active step *)
ActiveTracks(grid) == {t \in Tracks : \E s \in Steps : grid[t][s] = 1}

(* The clauses of a set of tracks, in track order *)
RECURSIVE ClausesOf(_)
ClausesOf(S) ==
  IF S = {} THEN ""
  ELSE LET first == CHOOSE t \in S : \A u \in S : t <= u
       IN  Clause(first) \o ClausesOf(S \ {first})

(* The text expected for each set of active tracks *)
TextOfTracks == [S \in SUBSET Tracks |-> Preamble \o ClausesOf(S)]

(* Each of these texts with its number of clauses *)
ClauseCounts == {<<TextOfTracks[S], Cardinality(S)>> : S \in SUBSET Tracks}

(* The positions of the stored prompts that are eligible: weight not 0 and  *)
(* text not flagged                                                         *)
Eligible(P, F) == {k \in DOMAIN P : P[k].weight # 0 /\ P[k].text \notin F}

(* The j-th smallest element of a set of positions *)
Nth(S, j) == CHOOSE k \in S : Cardinality({h \in S : h < k}) = j - 1

(* C1: every payload handed to setWeightedPrompts is exactly the stored     *)
(* prompts whose weight is not 0 and whose text is not flagged, in the      *)
(* store's iteration order, followed by at most one synthetic prompt.       *)
C1_PayloadIsEligibleStore ==
  [][Pushes =>
      LET payload == sent'.payload
          kept    == Eligible(prompts', filteredPrompts')
          m       == Cardinality(kept)
      IN  /\ Len(payload) \in {m, m + 1}
          /\ \A j \in 1..m : payload[j] = prompts'[Nth(kept, j)]
          /\ Len(payload) = m + 1 => payload[m + 1].promptId = "prompt-sequencer"
    ]_vars

(* A payload was pushed that leaves out a stored prompt of weight 2 whose   *)
(* text is flagged and carries the other stored prompt.                     *)
C1_Witness ==
  /\ sent.count > 0
  /\ \E a, b \in DOMAIN prompts :
       /\ prompts[a].weight # 0 /\ prompts[a].text \in filteredPrompts
       /\ prompts[b].weight # 0 /\ prompts[b].text \notin filteredPrompts
       /\ sent.payload = << prompts[b] >>

(* C2: once a text is flagged by a filteredPrompt message, no later payload *)
(* contains a prompt with that text.                                        *)
C2_FlaggedTextNeverPushed ==
  [][Pushes =>
      \A k \in DOMAIN sent'.payload : sent'.payload[k].text \notin filteredPrompts
    ]_vars

(* C3: the synthetic prompt is in the payload exactly when the sequencer    *)
(* weight is above 0 and some track has an active step, and its text has    *)
(* as many clauses as there are tracks with an active step.                 *)
C3_SyntheticIffAudible ==
  [][Pushes =>
      LET payload == sent'.payload
          active  == ActiveTracks(sequencerGrid')
      IN  /\ (Synthetic(payload) # {}) <=> (sequencerWeight' > 0 /\ active # {})
          /\ \A k \in Synthetic(payload) :
               <<payload[k].text, Cardinality(active)>> \in ClauseCounts
    ]_vars

(* A payload was pushed whose synthetic prompt has two clauses. *)
C3_Witness ==
  /\ sent.count > 0
  /\ sequencerGrid = HatTomGrid
  /\ \E k \in Synthetic(sent.payload) :
       sent.payload[k].text = Preamble \o Clause(4) \o Clause(6)

(* C4: the synthetic prompt, when present, is in the payload once, as its   *)
(* last element, with the sequencer weight and the preamble followed by the *)
(* clauses of the active tracks in track order.                             *)
C4_SyntheticIsLast ==
  [][Pushes =>
      LET payload == sent'.payload
      IN  /\ Cardinality(Synthetic(payload)) <= 1
          /\ \A k \in Synthetic(payload) :
               /\ k = Len(payload)
               /\ payload[k].promptId = "prompt-sequencer"
               /\ payload[k].weight = sequencerWeight'
               /\ payload[k].text = TextOfTracks[ActiveTracks(sequencerGrid')]
    ]_vars

(* A payload was pushed that carries a stored prompt and then the kick-only *)
(* synthetic prompt at weight 2.                                            *)
C4_Witness ==
  /\ Len(sent.payload) = 2
  /\ sent.payload[1].promptId = PromptIdOf(0)
  /\ sent.payload[2] = [promptId |-> "prompt-sequencer",
                        text     |-> Preamble \o Clause(1),
                        weight   |-> MaxWeight,
                        color    |-> "#ff0044"]

----------------------------------------------------------------------------
(* Properties of the throttled push, under SpecSync *)

(* C5: whatever the triggers, two consecutive setWeightedPrompts calls are  *)
(* at least 200 ms apart.                                                   *)
C5_CallsOneIntervalApart ==
  [][Pushes /\ sent.count > 0 => sent'.time - sent.time >= delay]_vars

(* A second call was made exactly one interval after the first. *)
C5_Witness ==
  /\ sent.count = 2
  /\ sent.time = StartNow + delay

(* C6: the invocation that passes the throttle (the first of a burst, the   *)
(* very first one included) calls the push at once, and the burst makes     *)
(* exactly one network call: the step that stamps lastCall makes one call,  *)
(* every other step none.                                                   *)
C6_BurstMakesOneCall ==
  [][sent'.count = IF lastCall' # lastCall THEN sent.count + 1 ELSE sent.count]_vars

(* The store has settled: a session holds a payload, no connect, send or    *)
(* failure is outstanding or has been shown, and a throttle interval has    *)
(* passed since the last call.                                              *)
Settled ==
  /\ session # 0
  /\ sent.count > 0
  /\ connecting.startup = 0 /\ connecting.play = 0
  /\ pendingFail = 0
  /\ toast = ""
  /\ now - lastCall >= delay

(* C7: once the edits have stopped and no send has failed, the last payload *)
(* pushed equals the payload computed from the store.                       *)
C7_SettledStoreIsPushed ==
  Settled =>
    sent.payload = promptsToSend(prompts, filteredPrompts, sequencerGrid, sequencerWeight)

----------------------------------------------------------------------------
(* Properties of the playback machine, under Spec *)

(* A user press of the play/pause button that starts playback: the press    *)
(* itself, or its continuation once the reconnect it awaited has resolved   *)
PlayPress == handlePlayPause \/ ConnectResolved("play")

(* C8: from 'stopped' only a user play press changes the playback state.    *)
C8_StoppedLeftOnlyByPlayPress ==
  [][playbackState = "stopped" /\ playbackState' # "stopped" => PlayPress]_vars

(* C9: from 'playing' the state changes only by a pause to 'paused', by an  *)
(* underrun to 'loading', or by a session error or close to 'stopped'.      *)
C9_PlayingLeftOnlyByPauseUnderrunError ==
  [][playbackState = "playing" /\ playbackState' # "playing" =>
      \/ playbackState' = "paused" /\ (handlePlayPause \/ PushRejected)
      \/ playbackState' = "loading" /\ (\E i \in DOMAIN decoding : decoded(i))
      \/ playbackState' = "stopped" /\ (onerror \/ onclose)
    ]_vars

(* C10: no buffer is scheduled, and the cursor is neither anchored nor      *)
(* advanced, by a chunk while the state is 'stopped' or 'paused', also when *)
(* the chunk's decode completes after the state has changed.                *)
C10_NoScheduleWhileStoppedOrPaused ==
  [][(playbackState = "stopped" \/ playbackState = "paused") =>
      (\A i \in DOMAIN decoding :
         decoded(i) => (scheduled' = scheduled /\ nextStartTime' = nextStartTime))
    ]_vars

----------------------------------------------------------------------------
(* Properties of the audio scheduling, under SpecAudio *)

Last(q) == q[Len(q)]

(* The buffers from position j on are scheduled back to back. *)
Chained(q, j) == \A k \in j..(Len(q) - 1) : q[k + 1].start = q[k].start + q[k].duration

RECURSIVE SumDurations(_, _)
SumDurations(q, j) == IF j > Len(q) THEN 0 ELSE q[j].duration + SumDurations(q, j + 1)

(* C11: while the cursor stays anchored, every buffer starts at the cursor   *)
(* and the cursor advances by the buffer's duration: the cursor never        *)
(* decreases, the buffers scheduled back to back do not overlap, and their   *)
(* durations add up to the cursor minus the start of the first of them.      *)
C11_CursorAdvancesByDuration ==
  [][/\ (nextStartTime # 0 /\ nextStartTime' # 0) => nextStartTime' >= nextStartTime
     /\ (nextStartTime # 0 /\ Len(scheduled') > Len(scheduled)) =>
          /\ Last(scheduled').start = nextStartTime
          /\ nextStartTime' = nextStartTime + Last(scheduled').duration
     /\ nextStartTime' # 0 =>
          /\ scheduled' # << >>
          /\ \A j \in DOMAIN scheduled' :
               Chained(scheduled', j) =>
                 /\ nextStartTime' - scheduled'[j].start = SumDurations(scheduled', j)
                 /\ \A a, b \in j..Len(scheduled') :
                      a < b => scheduled'[a].start + scheduled'[a].duration
                                 <= scheduled'[b].start
    ]_vars

(* Two buffers of different durations are scheduled back to back and the     *)
(* cursor is at the end of the second.                                       *)
C11_Witness ==
  /\ Len(scheduled) = 2
  /\ scheduled[1].duration # scheduled[2].duration
  /\ scheduled[2].start = scheduled[1].start + scheduled[1].duration
  /\ nextStartTime = scheduled[2].start + scheduled[2].duration

(* C12: a chunk processed in 'loading' or 'playing' with the cursor non-zero *)
(* and the audio clock past it resets the cursor to 0 and sets the state to  *)
(* 'loading'; the chunk is not started and the output gain is left alone.    *)
C12_UnderrunResetsCursor ==
  [][(/\ Len(decoding') < Len(decoding)
      /\ (playbackState = "loading" \/ playbackState = "playing")
      /\ nextStartTime # 0
      /\ currentTime > nextStartTime) =>
       /\ nextStartTime' = 0
       /\ playbackState' = "loading"
       /\ scheduled' = scheduled
       /\ gainRamp' = gainRamp
       /\ outputNode' = outputNode
    ]_vars

(* The second chunk came after the first buffer had played out: it was not   *)
(* started, the cursor is 0 and the state is 'loading' with no pause, stop   *)
(* or error before.                                                          *)
C12_Witness ==
  /\ playbackState = "loading"
  /\ nextStartTime = 0
  /\ chunks = 2
  /\ decoding = << >>
  /\ timers = << >>
  /\ Len(scheduled) = 1
  /\ currentTime > scheduled[1].start + scheduled[1].duration
  /\ outputNode = 1
  /\ command[1] = "play"
  /\ toast = ""

(* C13: after a chunk anchored the cursor in 'loading', with no press,       *)
(* underrun, send failure, error or close since, the state does not become   *)
(* 'playing' before the buffer latency of that anchor has elapsed. The timer *)
(* armed by the anchor is the last one armed.                                *)
C13_PlayingNotBeforeLatency ==
  [][(/\ anchoredIn = "loading"
      /\ playbackState = "loading"
      /\ playbackState' = "playing") =>
       /\ timers # << >>
       /\ now >= Last(timers)
    ]_vars

(* C14: in every playback state an error or close event of the session sets *)
(* connectionError, leaves the state 'stopped' with the cursor at 0, and     *)
(* shows the connection-error notification.                                  *)
C14_ErrorOrCloseStopsAndNotifies ==
  [][(onerror \/ onclose) =>
       /\ connectionError'
       /\ playbackState' = "stopped"
       /\ nextStartTime' = 0
       /\ toast' = "Connection error, please restart audio."
    ]_vars

----------------------------------------------------------------------------
(* Properties of the connection, under SpecSync *)

(* connect() calls made so far: pending ones and resolved ones *)
Connects == session + connecting.startup + connecting.play

(* C15: connect() is called once at startup, and afterwards only by a play  *)
(* press made in 'stopped' or 'paused' while connectionError is true; no     *)
(* other event calls it.                                                     *)
C15_ConnectOnlyAtStartupOrPlayPress ==
  [][Connects' # Connects =>
       /\ Connects' = Connects + 1
       /\ \/ ~hasUpdated /\ Connects = 0
          \/ /\ handlePlayPause
             /\ (playbackState = "stopped" \/ playbackState = "paused")
             /\ connectionError
    ]_vars

(* A play press after the session reported an error: the reconnect is        *)
(* pending and nothing else has been called on the session since the stop.   *)
C15_Witness ==
  /\ connecting.play = 1
  /\ session = 1
  /\ connectionError
  /\ toast = "Connection error, please restart audio."
  /\ command = <<"stop", 1>>
  /\ playbackState = "stopped"

(* C16: a play press made in 'stopped' or 'paused' with connectionError true *)
(* calls nothing on the session until connect() has resolved, and then calls *)
(* play on the handle connect() resolved to, which is not the one held       *)
(* before.                                                                   *)
C16_PlayOnNewSessionAfterConnect ==
  [][/\ (/\ handlePlayPause
         /\ (playbackState = "stopped" \/ playbackState = "paused")
         /\ connectionError) =>
          /\ command' = command
          /\ playbackState' = playbackState
          /\ connecting'.play = connecting.play + 1
     /\ ConnectResolved("play") =>
          /\ session' # session
          /\ command' = <<"play", session'>>
          /\ playbackState' = "loading"
    ]_vars

(* The session dropped, the user pressed play, and the reconnect resolved:   *)
(* play went to the second handle.                                           *)
C16_Witness ==
  /\ session = 2
  /\ command = <<"play", 2>>
  /\ playbackState = "loading"
  /\ toast = "Connection error, please restart audio."
  /\ connecting.play = 0

(* C17: when the connect() of a reconnecting play press resolves, the full   *)
(* current payload is sent to the new session with one setWeightedPrompts    *)
(* call, alongside the play request.                                         *)
C17_ReconnectResendsPayload ==
  [][ConnectResolved("play") =>
       /\ sent'.count = sent.count + 1
       /\ sent'.to = session'
       /\ sent'.payload = promptsToSend(prompts', filteredPrompts',
                                        sequencerGrid', sequencerWeight')
    ]_vars

----------------------------------------------------------------------------
(* Properties of a failed push, under SpecFailure *)

(* C18: when a setWeightedPrompts call rejects, the error message is shown, *)
(* session.pause() is called, the state becomes 'paused' with the cursor at  *)
(* 0, and the prompt map, the filtered set and the sequencer are unchanged.  *)
C18_PushFailurePausesKeepsStore ==
  [][PushRejected =>
       /\ toast' = "send failed"
       /\ command' = <<"pause", session>>
       /\ playbackState' = "paused"
       /\ nextStartTime' = 0
       /\ storeVars' = storeVars
    ]_vars

(* The push was rejected after a buffer had been scheduled and the deferred  *)
(* transition had run: the only pause so far is the forced one.              *)
C18_Witness ==
  /\ toast = "send failed"
  /\ playbackState = "paused"
  /\ command = <<"pause", 1>>
  /\ nextStartTime = 0
  /\ outputNode = 2
  /\ scheduled # << >>
  /\ timers = << >>

(* C28: a chunk whose decode fails is dropped: its handler ends without     *)
(* scheduling, arming a timer or showing anything, the cursor, the playback  *)
(* state and the connection flag are unchanged, and it is not queued again;  *)
(* what is left is the state in which later chunks are scheduled.            *)
C28_FailedDecodeDropsChunkOnly ==
  [][\A i \in DOMAIN decoding : decodeFailed(i) =>
       /\ <<nextStartTime, playbackState, connectionError, toast>>' =
            <<nextStartTime, playbackState, connectionError, toast>>
       /\ <<scheduled, timers, outputNode, gainRamp, command>>' =
            <<scheduled, timers, outputNode, gainRamp, command>>
       /\ Len(decoding') = Len(decoding) - 1
       /\ \A k \in DOMAIN decoding' : decoding'[k] = decoding[IF k < i THEN k ELSE k + 1]
    ]_vars

(* Of two chunks received while loading, one failed to decode and the other  *)
(* anchored the cursor and was scheduled.                                    *)
C28_Witness ==
  /\ chunks = 2
  /\ decoding = << >>
  /\ Len(scheduled) = 1
  /\ playbackState = "loading"
  /\ anchoredIn = "loading"
  /\ nextStartTime = scheduled[1].start + scheduled[1].duration
  /\ timers # << >>
  /\ toast = ""

----------------------------------------------------------------------------
(* Properties of the filtered set, under SpecStore and SpecSession *)

(* C19: no step removes a text from the filtered set; a filteredPrompt       *)
(* message adds its text to the set and shows the reason the server gave.    *)
C19_FilteredSetOnlyGrows ==
  [][/\ filteredPrompts \subseteq filteredPrompts'
     /\ \A e \in FlagMessages : onmessage(e) =>
          /\ filteredPrompts' = filteredPrompts \cup e.filteredPrompt
          /\ toast' = "filteredReason"
    ]_vars

(* A stored prompt's text was flagged, and an edit made afterwards retyped   *)
(* or removed the prompt and pushed a payload without it: the text is still  *)
(* in the set.                                                               *)
C19_Witness ==
  \E t \in filteredPrompts :
     /\ \E k \in DOMAIN initialPrompts : initialPrompts[k] = t
     /\ \A k \in DOMAIN prompts : prompts[k].text # t
     /\ \A k \in DOMAIN sent.payload : sent.payload[k].text # t

(* C20: when the connect() of a reconnecting play press resolves, the        *)
(* filtered set is empty: texts flagged during the previous session are not  *)
(* in it any more.                                                           *)
C20_ReconnectClearsFilteredSet ==
  [][ConnectResolved("play") => filteredPrompts' = {}]_vars

(* C21: once a filteredPrompt message for the text of a stored prompt of the *)
(* session's prompt set has been handled, the set held by the session (the   *)
(* last payload pushed) has no stored prompt with that text.                 *)
C21_FlagExcludesUpstreamAtOnce ==
  [][\A e \in FlagMessages : onmessage(e) =>
       \A k \in DOMAIN sent'.payload :
          sent'.payload[k].promptId # "prompt-sequencer" =>
             sent'.payload[k].text \notin e.filteredPrompt
    ]_vars

----------------------------------------------------------------------------
(* Properties of the prompt map under the user's edits, under SpecText *)

Ids(P) == [k \in DOMAIN P |-> P[k].promptId]

(* C23: the ids in the map are pairwise distinct; a text or weight edit      *)
(* leaves every id where it was; an added prompt has weight 0 and the id     *)
(* 'prompt-<nextPromptId>', which no prompt of the map has; and since every  *)
(* id in the map is numbered below nextPromptId, which never decreases, that *)
(* id was never used by a prompt present earlier.                            *)
C23_IdsDistinctAndNeverReused ==
  [][hasUpdated' =>
       /\ \A a, b \in DOMAIN prompts' :
             prompts'[a].promptId = prompts'[b].promptId => a = b
       /\ \A k \in DOMAIN prompts' :
             \E n \in 0..(nextPromptId' - 1) : prompts'[k].promptId = PromptIdOf(n)
       /\ hasUpdated => nextPromptId' >= nextPromptId
       /\ (updateText \/ \E id \in PromptIds, value \in Weights : updateWeight(id, value)) =>
             Ids(prompts') = Ids(prompts)
       /\ handleAddPrompt =>
             /\ ~has(prompts, PromptIdOf(nextPromptId))
             /\ Len(prompts') = Len(prompts) + 1
             /\ SubSeq(prompts', 1, Len(prompts)) = prompts
             /\ Last(prompts').promptId = PromptIdOf(nextPromptId)
             /\ Last(prompts').weight = 0
    ]_vars

(* A prompt was removed and one was added: the map is as large as at the     *)
(* start and the added prompt is numbered after all the initial ones.        *)
C23_Witness ==
  /\ Len(prompts) = Len(initialPrompts)
  /\ Last(prompts).promptId = PromptIdOf(Len(initialPrompts))
  /\ Last(prompts).weight = 0
  /\ nextPromptId = Len(initialPrompts) + 1

----------------------------------------------------------------------------
(* Properties of the play/pause button and the output gain, under SpecAudio *)

(* C24: a press in 'playing' gives 'paused' and calls session.pause(); a     *)
(* press in 'loading' gives 'stopped' and calls session.stop(); a press in   *)
(* 'stopped' or 'paused' gives 'loading' and calls session.play(), at once   *)
(* when connectionError is false and when the reconnect has resolved         *)
(* otherwise; no press gives 'playing'.                                      *)
C24_PressFollowsTransitionTable ==
  [][/\ (handlePlayPause /\ playbackState = "playing") =>
          playbackState' = "paused" /\ command' = <<"pause", session>>
     /\ (handlePlayPause /\ playbackState = "loading") =>
          playbackState' = "stopped" /\ command' = <<"stop", session>>
     /\ (/\ handlePlayPause
         /\ (playbackState = "stopped" \/ playbackState = "paused")
         /\ ~connectionError) =>
          playbackState' = "loading" /\ command' = <<"play", session>>
     /\ (/\ handlePlayPause
         /\ (playbackState = "stopped" \/ playbackState = "paused")
         /\ connectionError) =>
          playbackState' = playbackState /\ command' = command
     /\ ConnectResolved("play") =>
          playbackState' = "loading" /\ command' = <<"play", session'>>
     /\ PlayPress => playbackState' # "playing"
    ]_vars

(* The button was pressed while playing: buffers had been scheduled, the     *)
(* state is 'paused' and the last session call is pause.                     *)
C24_Witness ==
  /\ playbackState = "paused"
  /\ command = <<"pause", 1>>
  /\ scheduled # << >>
  /\ outputNode = 2
  /\ toast = ""

(* C25: a pause resets the cursor to 0 and makes a new node the current      *)
(* output node, one that no scheduled buffer is connected to; every buffer   *)
(* is connected to the node that is the current one when it is scheduled.    *)
C25_PauseReplacesOutputNode ==
  [][/\ ((handlePlayPause /\ playbackState = "playing") \/ PushRejected) =>
          /\ nextStartTime' = 0
          /\ outputNode' # outputNode
          /\ \A k \in DOMAIN scheduled' : scheduled'[k].node # outputNode'
     /\ Len(scheduled') > Len(scheduled) =>
          /\ SubSeq(scheduled', 1, Len(scheduled)) = scheduled
          /\ Last(scheduled').node = outputNode'
          /\ outputNode' = outputNode
    ]_vars

(* A buffer was scheduled, the user paused and resumed, and a second buffer  *)
(* was scheduled: the first is on the old node, the second on the new one.   *)
C25_Witness ==
  /\ Len(scheduled) = 2
  /\ scheduled[1].node = 1
  /\ scheduled[2].node = 2
  /\ outputNode = 2

(* C26: a stop (a press while loading, an error or a close of an assigned    *)
(* session) ramps the gain of the current output node to 0; a pause ramps    *)
(* it from 1 to 0; a resume into 'loading' ramps it from 0 to 1.             *)
C26_GainRampTargets ==
  [][/\ (\/ handlePlayPause /\ playbackState = "loading"
         \/ (onerror \/ onclose) /\ session # 0) =>
          /\ gainRamp'[1] = outputNode
          /\ gainRamp'[3] = 0
     /\ (handlePlayPause /\ playbackState = "playing") =>
          gainRamp' = <<outputNode, 1, 0>>
     /\ (/\ handlePlayPause
         /\ (playbackState = "stopped" \/ playbackState = "paused")
         /\ ~connectionError) =>
          gainRamp' = <<outputNode, 0, 1>>
    ]_vars

----------------------------------------------------------------------------
(* Properties of the connection flag, under SpecSync *)

(* C27: connectionError is true until the first update; it turns false only *)
(* in the handling of a setupComplete message, which always leaves it false, *)
(* and turns true only in an error or close event, which always leaves it    *)
(* true.                                                                     *)
C27_ConnectionErrorFlag ==
  [][/\ ~hasUpdated => connectionError
     /\ (connectionError /\ ~connectionError') => onmessage(Message(TRUE, {}, {}))
     /\ (~connectionError /\ connectionError') => (onerror \/ onclose)
     /\ onmessage(Message(TRUE, {}, {})) => ~connectionError'
     /\ (onerror \/ onclose) => connectionError'
    ]_vars

(* The first session reported an error, the user reconnected, and the second *)
(* session has sent setupComplete.                                           *)
C27_Witness ==
  /\ ~connectionError
  /\ session = 2
  /\ toast = "Connection error, please restart audio."

(* C29: the step timer of the beat sequencer never accumulates.  After every *)
(* step at most one interval timer is active, and one is active only for the *)
(* connected element, under the handle the element holds, while its          *)
(* playbackState is 'playing' and its bpm is above 0.  Every update for a    *)
(* changed playbackState or bpm cancels the timer that was running and       *)
(* leaves a timer running, under a new handle, exactly when the state is     *)
(* 'playing' with bpm above 0; after an update, first or later, to a state   *)
(* other than 'playing', currentStep is -1.  A tick of the timer moves       *)
(* currentStep to the next of 0..15, from 15 back to 0.                      *)
C29_StepTimerNeverAccumulates ==
  [][/\ Cardinality(stepIntervals') <= 1
     /\ stepIntervals' # {} =>
          /\ stepIntervals' = {sequencer'.stepInterval}
          /\ sequencer'.connected
          /\ sequencer'.playbackState = "playing"
          /\ sequencer'.bpm > 0
          /\ sequencer'.currentStep \in -1..(numSteps - 1)
     /\ updated =>
          /\ sequencer.stepInterval # 0 => sequencer.stepInterval \notin stepIntervals'
     /\ (updated \/ sequencerFirstUpdated) =>
          /\ sequencer'.playbackState = playbackState /\ sequencer'.bpm = currentBpm
          /\ stepIntervals' # {} <=> (playbackState = "playing" /\ currentBpm > 0)
          /\ sequencer'.playbackState # "playing" => sequencer'.currentStep = -1
     /\ stepTick =>
          /\ sequencer'.currentStep = (sequencer.currentStep + 1) % numSteps
          /\ sequencer'.currentStep \in 0..(numSteps - 1)
    ]_vars

(* The timer was restarted while it ran, for a changed bpm, and has ticked   *)
(* up to the last step.                                                      *)
C29_Witness ==
  /\ stepIntervals = {2}
  /\ sequencer.connected
  /\ sequencer.playbackState = "playing"
  /\ sequencer.bpm = 90
  /\ sequencer.currentStep = numSteps - 1

(* C30: handling a failed push never re-triggers the push.  The step that    *)
(* handles a rejected setWeightedPrompts call shows one notification and     *)
(* makes one pause call, makes no session.setWeightedPrompts call, leaves    *)
(* the throttle's time stamp alone, and settles exactly that one rejection   *)
(* without creating another.                                                 *)
C30_FailureNeverRepushes ==
  [][PushRejected =>
       /\ sent' = sent
       /\ lastCall' = lastCall
       /\ pendingFail' = pendingFail - 1
       /\ toast' = "send failed"
       /\ command' = <<"pause", session>>
    ]_vars

(* The startup push was rejected and handled, and the throttle's interval    *)
(* has passed since: the failed call is still the only one made.             *)
C30_Witness ==
  /\ toast = "send failed"
  /\ command = <<"pause", 1>>
  /\ pendingFail = 0
  /\ sent.count = 1
  /\ now - lastCall >= delay

----------------------------------------------------------------------------
(* C31: playbackState becomes 'playing' only from 'loading': every step that *)
(* enters 'playing' starts in 'loading', so a deferred transition whose      *)
(* latency elapses after a stop, a pause or an error does not take effect.   *)
C31_PlayingOnlyFromLoading ==
  [][(playbackState' = "playing" /\ playbackState # "playing") =>
       playbackState = "loading"
    ]_vars

(* The last control command the session has received: a call on an          *)
(* undefined session throws and sends nothing.                              *)
LastCommand == IF command[2] = 0 THEN "none" ELSE command[1]

(* C32: the playback state agrees with the last control command sent to the  *)
(* session: play in 'playing' and 'loading', pause in 'paused', and stop or  *)
(* no command at all in 'stopped'.                                           *)
C32_StateAgreesWithLastCommand ==
  /\ playbackState \in {"playing", "loading"} => LastCommand = "play"
  /\ playbackState = "paused" => LastCommand = "pause"
  /\ playbackState = "stopped" => LastCommand \in {"stop", "none"}

(* C33: whenever playbackState is 'stopped' or 'paused' the scheduling       *)
(* cursor nextStartTime is 0, however the completion of a decode interleaves *)
(* with pause, stop and error events.                                        *)
C33_CursorZeroWhileStoppedOrPaused ==
  playbackState \in {"stopped", "paused"} => nextStartTime = 0

(* C34: after a stop followed by a new play, no buffer scheduled before the  *)
(* stop overlaps, on the current output node, a buffer scheduled after it.   *)
(* Stated on the step that schedules a buffer while play is the last command *)
(* sent: no earlier buffer on the same node ends later than the new buffer   *)
(* starts.  Buffers of one anchored period are chained, an underrun finds    *)
(* all earlier buffers ended and a pause changes the node, so only a stop    *)
(* between the two buffers can make them overlap.                            *)
C34_NoOverlapAcrossStop ==
  [][(Len(scheduled') > Len(scheduled) /\ LastCommand = "play") =>
       \A k \in DOMAIN scheduled :
          scheduled[k].node = Last(scheduled').node =>
            scheduled[k].start + scheduled[k].duration <= Last(scheduled').start
    ]_vars

(* An event of a superseded session.  Every connect registers the same       *)
(* callbacks, closures over the coordinator that take no handle, and no      *)
(* session is ever closed by the coordinator: once a reconnect has replaced  *)
(* the handle, a step of a callback is also what a late event of a replaced  *)
(* session does.                                                             *)
SupersededEvent ==
  /\ session > 1
  /\ \/ onerror
     \/ onclose
     \/ \E e \in ChunkMessages \cup {Message(TRUE, {}, {})} : onmessage(e)

(* C35: only events of the current session handle affect the coordinator:    *)
(* after a reconnect has replaced the session, a message, error or close     *)
(* event of a superseded session leaves playbackState, connectionError and   *)
(* the cursor unchanged, schedules no buffer and starts no decode.           *)
C35_SupersededSessionIgnored ==
  [][SupersededEvent =>
       UNCHANGED <<playbackState, connectionError, nextStartTime, scheduled, decoding>>
    ]_vars

(* connect() calls that have not resolved yet *)
InFlight == connecting.startup + connecting.play

(* play() is sent to a session while play() on another session is the last  *)
(* command sent.                                                            *)
PlayOnSecondHandle ==
  /\ LastCommand = "play"
  /\ command'[1] = "play" /\ command'[2] # 0
  /\ command'[2] # command[2]

(* C36: at most one connect() is in flight at any time, and a play press     *)
(* made while a connect is pending does not lead to play() being called on   *)
(* two different session handles.                                            *)
C36_OneConnectOnePlay ==
  [][InFlight' <= 1 /\ ~PlayOnSecondHandle]_vars

(* C37: chunks are scheduled in the order their messages arrive.  Stated on  *)
(* the step in which a suspended handler resumes and schedules its buffer    *)
(* with the cursor left at or after the current time: the handler is the     *)
(* oldest one suspended.  Otherwise an older message is still suspended and, *)
(* resuming next, is scheduled in the same anchored period at the cursor,    *)
(* after the buffer of the newer message.                                    *)
C37_ScheduledInArrivalOrder ==
  [][(/\ \E i \in DOMAIN decoding : decoded(i)
      /\ Len(scheduled') > Len(scheduled)
      /\ nextStartTime' >= currentTime) =>
       decoding' = Tail(decoding)
    ]_vars

(* C38: of a message with audio chunks that is processed in 'loading' or     *)
(* 'playing', exactly the first chunk is decoded, whatever the number of     *)
(* chunks, and a message processed in another state starts no decode; a      *)
(* handler that resumes schedules at most one buffer, of the duration of     *)
(* that chunk, and moves the cursor by that duration or resets it to 0.      *)
C38_FirstChunkOnly ==
  [][/\ \A e \in ChunkMessages :
          onmessage(e) =>
            decoding' = IF playbackState \in {"loading", "playing"}
                        THEN Append(decoding,
                                    decodeAudioData((CHOOSE c \in e.audioChunks : TRUE)[1]))
                        ELSE decoding
     /\ \A i \in DOMAIN decoding :
          decoded(i) =>
            /\ Len(decoding') = Len(decoding) - 1
            /\ Len(scheduled') <= Len(scheduled) + 1
            /\ Len(scheduled') > Len(scheduled) =>
                 /\ Last(scheduled').duration = decoding[i]
                 /\ nextStartTime' = Last(scheduled').start + decoding[i]
            /\ nextStartTime # 0 => nextStartTime' \in {0, nextStartTime + decoding[i]}
    ]_vars

(* One message with two chunks, of two seconds and of one second, has been   *)
(* processed while loading: one buffer of two seconds is scheduled and the   *)
(* cursor is at its end.                                                     *)
C38_Witness ==
  /\ chunks = 1
  /\ decoding = << >>
  /\ scheduled = <<[start |-> 2 * SecondMs, duration |-> 2 * SecondMs, node |-> 1]>>
  /\ nextStartTime = 4 * SecondMs
  /\ playbackState = "loading"

(* C39: a prompt-changed or prompt-removed event that names an id not in the *)
(* prompt map changes nothing: the map is unchanged, no push is made and no  *)
(* prompts-changed event is dispatched.  For an id that is present, an edit  *)
(* sets that prompt's text and weight and keeps its id, its colour and its   *)
(* position, a removal deletes that prompt, and either leaves every other    *)
(* prompt as it was and in the same order.  Only steps that leave alone what *)
(* neither handler writes can be steps of these handlers.                    *)
C39_HandlersTouchOnlyTheNamedPrompt ==
  [][UNCHANGED <<now, connVars, audioVars, chunkVars, nextPromptId, filteredPrompts>> =>
       \A id \in PromptIds :
         /\ \A text \in UserTexts, weight \in Weights :
              handlePromptChanged(id, text, weight) =>
                IF has(prompts, id)
                THEN /\ Len(prompts') = Len(prompts)
                     /\ \A k \in DOMAIN prompts :
                          IF prompts[k].promptId = id
                          THEN prompts'[k] = [promptId |-> id, text |-> text,
                                              weight |-> weight,
                                              color |-> prompts[k].color]
                          ELSE prompts'[k] = prompts[k]
                     /\ "prompts-changed" \in dispatched'
                ELSE UNCHANGED <<prompts, sent, lastCall, pendingFail, dispatched>>
         /\ handlePromptRemoved(id) =>
              IF has(prompts, id)
              THEN /\ \E pos \in DOMAIN prompts :
                        /\ prompts[pos].promptId = id
                        /\ prompts' = RemoveAt(prompts, pos)
                   /\ "prompts-changed" \in dispatched'
              ELSE UNCHANGED <<prompts, sent, lastCall, pendingFail, dispatched>>
    ]_vars

(* The last initial prompt has had its weight changed and the first one has  *)
(* been removed: the edited prompt keeps its id, text and colour, the two    *)
(* prompts between them are as they were, and the id of the removed prompt   *)
(* is no longer present.                                                     *)
C39_Witness ==
  /\ Len(prompts) = 3
  /\ ~has(prompts, "prompt-0")
  /\ prompts[1] = InitialPrompts[2]
  /\ prompts[2] = InitialPrompts[3]
  /\ prompts[3] = [InitialPrompts[4] EXCEPT !.weight = MaxWeight]
  /\ dispatched = {"prompts-changed"}

====
